---- MODULE Spec2Model ----
(***************************************************************************)
(* A model of diffpr.py: main() resolves a pull request to its base and    *)
(* head commits, cleans <output_dir>/before and <output_dir>/after, and    *)
(* materializes one tarball into each with download_and_extract().         *)
(*                                                                         *)
(* Member names are strings, modelled as sequences of one-character        *)
(* strings, so that the prefix arithmetic of download_and_extract (split,  *)
(* startswith, slicing by len(prefix)) is computed character by character. *)
(* A directory is a set of entries [path, kind]; a path is a sequence of   *)
(* segments and a segment is a sequence of characters.                     *)
(***************************************************************************)
EXTENDS Naturals, Sequences, FiniteSets

(***************************************************************************)
(* Bounds of the model.                                                    *)
(***************************************************************************)
\* longest member name of an archive handed to download_and_extract alone
MaxNameLen == 4
\* most members of an archive handed to download_and_extract alone
MaxMembers == 2
\* most members of a tarball the remote serves to main()
MaxRepoMembers == 3
\* most positional command-line arguments
MaxArgs == 3
\* longest path below the wrapper directory, and most members, of an
\* archive whose members all lie in one wrapper directory
MaxRestLen == 2
MaxWrapped == 2

Alphabet == {"p", "/", "."}

Names == UNION {[1..n -> Alphabet] : n \in 1..MaxNameLen}

\* tarfile member types; a symlink member's target is either an existing
\* directory outside <output_dir> ("symExt") or the sibling output
\* directory, ../after seen from before and ../before seen from after
\* ("symSib")
LinkKinds == {"symExt", "symSib"}

Members == [name : Names, type : {"file", "dir", "symExt"}]

\* the names of an archive made the way the hosting service makes one:
\* the wrapper directory and paths below it
Wrapper == <<"p">>
Rests == UNION {[1..n -> Alphabet] : n \in 0..MaxRestLen}
WrappedNames == {Wrapper} \cup {Wrapper \o <<"/">> \o r : r \in Rests}
WrappedMembers == [name : WrappedNames, type : {"file", "dir", "symExt"}]

(***************************************************************************)
(* Strings.                                                                *)
(***************************************************************************)
StartsWith(s, t) ==
    /\ Len(t) <= Len(s)
    /\ SubSeq(s, 1, Len(t)) = t

\* s[n:] of Python, n counted from 0; empty when n >= len(s)
DropChars(s, n) == SubSeq(s, n + 1, Len(s))

\* position of the first "/" of s, or Len(s) + 1
FirstSlash(s) ==
    IF \E i \in 1..Len(s) : s[i] = "/"
    THEN CHOOSE i \in 1..Len(s) : s[i] = "/" /\ \A j \in 1..(i - 1) : s[j] # "/"
    ELSE Len(s) + 1

\* s.split("/"): the segments between separators, empty ones kept
RECURSIVE Split(_)
Split(s) ==
    IF FirstSlash(s) > Len(s)
    THEN <<s>>
    ELSE <<SubSeq(s, 1, FirstSlash(s) - 1)>> \o Split(DropChars(s, FirstSlash(s)))

\* member.name.split("/")[0]
FirstSegment(s) == Split(s)[1]

DotDot == <<".", ".">>

Range(f) == {f[i] : i \in DOMAIN f}

(***************************************************************************)
(* download_and_extract: the rewriting of a member's name and the filter.  *)
(***************************************************************************)
\* member.name.startswith(prefix + "/")
HasWrapper(name, pre) == StartsWith(name, pre \o <<"/">>)

\* the new member.name: the name with prefix and separator cut off, or,
\* in the else branch, with len(prefix) characters cut off
Rewrite(name, pre) ==
    IF HasWrapper(name, pre)
    THEN DropChars(name, Len(pre) + 1)
    ELSE DropChars(name, Len(pre))

\* a variant of Skipped that lets the empty name through
SkippedUnlessEmpty(name) ==
    \/ StartsWith(name, <<"/">>)
    \/ DotDot \in Range(Split(name))

\* the members the loop passes over with continue
Skipped(name) ==
    \/ name = <<>>
    \/ StartsWith(name, <<"/">>)
    \/ DotDot \in Range(Split(name))

(***************************************************************************)
(* The file system under <output_dir>, as tarfile.extract acts on it.      *)
(***************************************************************************)
\* the path the operating system resolves a relative name to: empty and
\* "." segments name no step
RECURSIVE DropNoSteps(_)
DropNoSteps(segs) ==
    IF segs = <<>> THEN <<>>
    ELSE IF Head(segs) = <<>> \/ Head(segs) = <<".">>
         THEN DropNoSteps(Tail(segs))
         ELSE <<Head(segs)>> \o DropNoSteps(Tail(segs))

PathOf(name) == DropNoSteps(Split(name))

Absent == [kind |-> "absent", tree |-> {}]
PlainFile == [kind |-> "file", tree |-> {}]
DirOf(t) == [kind |-> "dir", tree |-> t]

Sibling(d) == IF d = "before" THEN "after" ELSE "before"

KindAt(t, p) ==
    IF \E e \in t : e.path = p
    THEN (CHOOSE e \in t : e.path = p).kind
    ELSE "none"

\* t with the entry at p made one of kind k
WithEntry(t, p, k) ==
    {e \in t : e.path # p} \cup {[path |-> p, kind |-> k]}

\* the directories os.makedirs(upperdirs) leaves above p
WithParents(t, p) ==
    t \cup {[path |-> SubSeq(p, 1, i), kind |-> "dir"] : i \in 1..(Len(p) - 1)}

\* the first proper ancestor of p that is no directory of t, or 0
FirstNonDir(t, p) ==
    LET bad == {i \in 1..(Len(p) - 1) : KindAt(t, SubSeq(p, 1, i)) \notin {"dir", "none"}}
    IN  IF bad = {} THEN 0 ELSE CHOOSE i \in bad : \A j \in bad : i <= j

Done(f) == [fs |-> f, ok |-> TRUE]
Raised(f) == [fs |-> f, ok |-> FALSE]

\* TarFile._extract_member on the member's target itself, its upper
\* directories being directories: makefile, makedir or makelink, then
\* chmod and utime for a member that is no symlink
PlaceTarget(f, d, p, k) ==
    LET t == WithParents(f[d].tree, p)
        cur == KindAt(t, p)
        put == [f EXCEPT ![d] = DirOf(WithEntry(t, p, k))]
        s == Sibling(d)
    IN  IF k = "file" THEN
            CASE cur \in {"none", "file"} -> Done(put)
              [] cur \in {"dir", "symExt"} -> Raised(f)
              [] cur = "symSib" ->
                    \* open(targetpath, "wb") follows the link
                    IF f[s].kind = "dir" THEN Raised(f)
                    ELSE Done([f EXCEPT ![s] = PlainFile])
        ELSE IF k = "dir" THEN
            CASE cur \in {"none", "dir"} -> Done(put)
              [] cur \in {"file", "symSib"} -> Done(f)
              \* FileExistsError is passed over; chmod follows the link
              [] cur = "symExt" -> Done([f EXCEPT !.outside = TRUE])
        ELSE
            \* os.unlink of a directory fails and the error is passed over
            IF cur = "dir" THEN Done(f) ELSE Done(put)

\* TarFile._extract_member(member, dest/p) without an extraction filter:
\* the state of the file system afterwards and whether it returned (ok) or
\* raised. A path through a symlink is followed to the link's target.
RECURSIVE Place(_, _, _, _)
Place(f, d, p, k) ==
    LET t == f[d].tree
        i == FirstNonDir(t, p)
        s == Sibling(d)
    IN  IF p = <<>> THEN
            \* the target is the destination directory itself
            (IF k = "file" THEN Raised(f) ELSE Done(f))
        ELSE IF i = 0 THEN PlaceTarget(f, d, p, k)
        ELSE IF KindAt(t, SubSeq(p, 1, i)) = "file" THEN Raised(f)
        ELSE IF KindAt(t, SubSeq(p, 1, i)) = "symExt"
             THEN Done([f EXCEPT !.outside = TRUE])
        ELSE IF f[s].kind = "dir"
             THEN Place(f, s, SubSeq(p, i + 1, Len(p)), k)
             ELSE Raised(f)

\* whether the "data" filter refuses the member: a link that leaves the
\* destination, or a path that resolves outside it
DataFilterRefuses(t, p, k) ==
    \/ k \in LinkKinds
    \/ \E i \in 1..Len(p) : KindAt(t, SubSeq(p, 1, i)) \in LinkKinds

\* tar.extract(member, dest_dir) under the extraction filter of the
\* interpreter: none before Python 3.14 ("fully_trusted"), "data" since
ExtractMember(f, d, name, k, filter) ==
    IF filter = "data" /\ DataFilterRefuses(f[d].tree, PathOf(name), k)
    THEN Raised(f)
    ELSE Place(f, d, PathOf(name), k)

\* a variant of EnsureDir that creates nothing
EnsureDirNoCreate(f, d) ==
    IF f[d].kind = "file" THEN Raised(f) ELSE Done(f)

\* os.makedirs(dest_dir, exist_ok=True)
EnsureDir(f, d) ==
    CASE f[d].kind = "absent" -> Done([f EXCEPT ![d] = DirOf({})])
      [] f[d].kind = "dir" -> Done(f)
      [] f[d].kind = "file" -> Raised(f)

\* if os.path.exists(d): shutil.rmtree(d)
CleanOne(f, d) ==
    CASE f[d].kind = "absent" -> Done(f)
      [] f[d].kind = "dir" -> Done([f EXCEPT ![d] = Absent])
      [] f[d].kind = "file" -> Raised(f)

\* a variant of CleanDirs that leaves <output_dir>/after as it is
CleanBeforeOnly(f) == CleanOne(f, "before")

\* for d in [before_dir, after_dir]: remove d if it exists
CleanDirs(f) ==
    IF CleanOne(f, "before").ok
    THEN CleanOne(CleanOne(f, "before").fs, "after")
    ELSE CleanOne(f, "before")

(***************************************************************************)
(* main(): arguments, messages and metadata.                               *)
(***************************************************************************)
\* a variant of WrongArgCount that lets extra arguments through
TooFewArgs(n) == n + 1 < 3

\* len(sys.argv) != 3, for n positional arguments
WrongArgCount(n) == n + 1 # 3

Emit(s, msg) == [s EXCEPT !.out = Append(@, msg)]

\* a variant of EmitUsage that writes to standard error
EmitUsageToStderr(s) == [s EXCEPT !.err = Append(@, "Usage")]

\* print(f"Usage: {sys.argv[0]} <pr_number> <output_dir>")
EmitUsage(s) == Emit(s, "Usage")

\* the interpreter's report of an unhandled exception
EmitTraceback(s) == [s EXCEPT !.err = Append(@, "Traceback")]

MetaOutcomes == {"ok", "network", "http_status", "bad_json", "missing_sha"}

\* a variant of MetadataResolved that goes on without the commit ids
MetadataResolvedLoose(o) == o \in {"ok", "missing_sha"}

\* fetch_json returned and pr_info holds base.sha and head.sha
MetadataResolved(o) == o = "ok"

(***************************************************************************)
(* What the remote serves to main().                                       *)
(***************************************************************************)
RepoMembers ==
    { [name |-> <<"p", "/", "p">>, type |-> "file"],
      [name |-> <<"p", "/", "p">>, type |-> "symSib"],
      [name |-> <<"p", "/", "p", "/", "p">>, type |-> "file"] }

RepoArchives == UNION {[1..n -> RepoMembers] : n \in 0..MaxRepoMembers}

Unknown == [known |-> FALSE, valid |-> FALSE, members |-> <<>>]
Garbage == [known |-> TRUE, valid |-> FALSE, members |-> <<>>]
Tarball(a) == [known |-> TRUE, valid |-> TRUE, members |-> a]

\* the bodies a tarball request can return: a gzip-compressed tar stream
\* or bytes that are none
RepoData == {Tarball(a) : a \in RepoArchives} \cup {Garbage}

ShaOf(d) == IF d = "before" THEN "base" ELSE "head"

\* what is left behind at <output_dir>/before or <output_dir>/after
Stale == [path |-> << <<".", "p">> >>, kind |-> "file"]
PreStates == {Absent, PlainFile, DirOf({Stale})}

NoMember == [orig |-> <<>>, type |-> "none", name |-> <<>>, extracted |-> FALSE]
NoOutput == [out |-> <<>>, err |-> <<>>]

(***************************************************************************)
(* The state.                                                              *)
(***************************************************************************)
VARIABLES
    pc,        \* where the process is
    argc,      \* the number of positional arguments
    std,       \* what was written to standard output and standard error
    status,    \* the exit status, once the process has ended
    requests,  \* the HTTP requests issued by this run, in order
    meta,      \* how the metadata request ended
    failed,    \* the step that raised, if one did
    fs,        \* <output_dir>/before, <output_dir>/after, and whether
               \* anything outside <output_dir> was created or modified
    snap,      \* fs as it was when this run started
    remote,    \* the tarball the remote serves for each commit
    filter,    \* the interpreter's default extraction filter
    cur,       \* dest_dir of the running download_and_extract
    data,      \* the bytes it downloaded
    idx,       \* the members the loop has gone through; prefix is None at 0
    prefix,    \* the wrapper prefix
    member,    \* the member the loop went through last
    written,   \* the paths under dest_dir handed to tar.extract so far
    shared     \* whether every member so far has prefix as first segment

vars == <<pc, argc, std, status, requests, meta, failed, fs, snap, remote,
          filter, cur, data, idx, prefix, member, written, shared>>

callVars == <<cur, data, idx, prefix, member, written, shared>>
runVars == <<argc, snap, remote, filter>>

Crash(step) ==
    /\ pc' = "crashed"
    /\ failed' = step
    /\ status' = 1
    /\ std' = EmitTraceback(std)

InitCommon ==
    /\ std = NoOutput
    /\ status = 0
    /\ requests = <<>>
    /\ meta = "none"
    /\ failed = "none"
    /\ remote = [base |-> Unknown, head |-> Unknown]
    /\ filter \in {"fully_trusted", "data"}
    /\ cur = "before"
    /\ data = Unknown
    /\ idx = 0
    /\ prefix = <<>>
    /\ member = NoMember
    /\ written = {}
    /\ shared = TRUE

Init ==
    /\ InitCommon
    /\ pc = "main"
    /\ argc \in 0..MaxArgs
    /\ \E b \in PreStates, a \in PreStates :
          fs = [before |-> b, after |-> a, outside |-> FALSE]
    /\ snap = fs

(***************************************************************************)
(* main()                                                                  *)
(***************************************************************************)
CheckArgs ==
    /\ pc = "main"
    /\ IF WrongArgCount(argc)
       THEN /\ std' = EmitUsage(std)
            /\ status' = 1
            /\ pc' = "exited"
       ELSE /\ pc' = "fetch"
            /\ UNCHANGED <<std, status>>
    /\ UNCHANGED <<requests, meta, failed, fs>>
    /\ UNCHANGED <<callVars, runVars>>

FetchInfo ==
    /\ pc = "fetch"
    /\ requests' = Append(requests, "pulls")
    /\ \E o \in MetaOutcomes :
          /\ meta' = o
          /\ IF MetadataResolved(o)
             THEN /\ std' = Emit(Emit(std, "Fetching"), "Shas")
                  /\ pc' = "clean"
                  /\ UNCHANGED <<status, failed>>
             ELSE /\ pc' = "crashed"
                  /\ failed' = "metadata"
                  /\ status' = 1
                  /\ std' = EmitTraceback(Emit(std, "Fetching"))
    /\ UNCHANGED fs
    /\ UNCHANGED <<callVars, runVars>>

Clean ==
    /\ pc = "clean"
    /\ fs' = CleanDirs(fs).fs
    /\ IF CleanDirs(fs).ok
       THEN /\ pc' = "download"
            /\ UNCHANGED <<std, status, failed>>
       ELSE Crash("clean")
    /\ UNCHANGED <<requests, meta>>
    /\ UNCHANGED <<callVars, runVars>>

\* print("Downloading ..."), and lines 21-23 of download_and_extract
Download ==
    /\ pc = "download"
    /\ requests' = Append(requests, ShaOf(cur))
    /\ \/ /\ \E body \in RepoData :
                /\ remote[ShaOf(cur)] \in {Unknown, body}
                /\ remote' = [remote EXCEPT ![ShaOf(cur)] = body]
                /\ data' = body
          /\ std' = Emit(std, cur)
          /\ pc' = "makedirs"
          /\ UNCHANGED <<status, failed>>
       \/ /\ pc' = "crashed"
          /\ failed' = "download"
          /\ status' = 1
          /\ std' = EmitTraceback(Emit(std, cur))
          /\ UNCHANGED <<remote, data>>
    /\ UNCHANGED <<meta, fs, argc, snap, filter>>
    /\ UNCHANGED <<cur, idx, prefix, member, written, shared>>

MakeDirs ==
    /\ pc = "makedirs"
    /\ fs' = EnsureDir(fs, cur).fs
    /\ IF EnsureDir(fs, cur).ok
       THEN /\ pc' = "open"
            /\ UNCHANGED <<std, status, failed>>
       ELSE Crash("makedirs")
    /\ UNCHANGED <<requests, meta>>
    /\ UNCHANGED <<callVars, runVars>>

\* tarfile.open(...) and tar.getmembers(): the whole archive is read
\* before the first member is extracted
OpenTar ==
    /\ pc = "open"
    /\ IF data.valid
       THEN /\ pc' = "loop"
            /\ UNCHANGED <<std, status, failed>>
       ELSE Crash("open")
    /\ idx' = 0
    /\ prefix' = <<>>
    /\ member' = NoMember
    /\ written' = {}
    /\ shared' = TRUE
    /\ UNCHANGED <<requests, meta, fs, cur, data>>
    /\ UNCHANGED runVars

\* one turn of the for loop, on member m
LoopOn(m) ==
    LET pre == IF idx = 0 THEN FirstSegment(m.name) ELSE prefix
        new == Rewrite(m.name, pre)
        res == ExtractMember(fs, cur, new, m.type, filter)
    IN  /\ pc = "loop"
        /\ idx' = idx + 1
        /\ prefix' = pre
        /\ shared' = (shared /\ FirstSegment(m.name) = pre)
        /\ IF Skipped(new)
           THEN /\ member' = [orig |-> m.name, type |-> m.type, name |-> new,
                              extracted |-> FALSE]
                /\ UNCHANGED <<pc, fs, std, status, failed, written>>
           ELSE /\ member' = [orig |-> m.name, type |-> m.type, name |-> new,
                              extracted |-> TRUE]
                /\ written' = written \cup {PathOf(new)}
                /\ fs' = res.fs
                /\ IF res.ok
                   THEN UNCHANGED <<pc, std, status, failed>>
                   ELSE Crash("extract")
        /\ UNCHANGED <<requests, meta, cur, data>>
        /\ UNCHANGED runVars

ExtractNext ==
    /\ idx < Len(data.members)
    /\ LoopOn(data.members[idx + 1])

\* download_and_extract returns to main()
Return ==
    /\ pc = "loop"
    /\ idx = Len(data.members)
    /\ IF cur = "before"
       THEN /\ cur' = "after"
            /\ pc' = "download"
            /\ UNCHANGED <<std, status>>
       ELSE /\ std' = Emit(std, "Done")
            /\ status' = 0
            /\ pc' = "done"
            /\ UNCHANGED cur
    /\ UNCHANGED <<requests, meta, failed, fs, data, idx, prefix, member, written,
                   shared>>
    /\ UNCHANGED runVars

\* the tool is run again on the same output directory
Rerun ==
    /\ pc \in {"exited", "crashed", "done"}
    /\ pc' = "main"
    /\ argc' \in 0..MaxArgs
    /\ std' = NoOutput
    /\ status' = 0
    /\ requests' = <<>>
    /\ meta' = "none"
    /\ failed' = "none"
    /\ snap' = fs
    /\ cur' = "before"
    /\ data' = Unknown
    /\ idx' = 0
    /\ prefix' = <<>>
    /\ member' = NoMember
    /\ written' = {}
    /\ shared' = TRUE
    /\ UNCHANGED <<fs, remote, filter>>

Next ==
    \/ CheckArgs
    \/ FetchInfo
    \/ Clean
    \/ Download
    \/ MakeDirs
    \/ OpenTar
    \/ ExtractNext
    \/ Return
    \/ Rerun

Spec == Init /\ [][Next]_vars

(***************************************************************************)
(* download_and_extract(tarball_url, "<output_dir>/before") called on its  *)
(* own, on any archive: the members are any names over Alphabet of any of  *)
(* the types of Members.                                                   *)
(***************************************************************************)
InitExtract ==
    /\ InitCommon
    /\ pc = "download"
    /\ argc = 2
    /\ fs \in {[before |-> b, after |-> Absent, outside |-> FALSE] :
                  b \in {Absent, DirOf({})}}
    /\ snap = fs

DownloadAny ==
    /\ pc = "download"
    /\ requests' = Append(requests, ShaOf(cur))
    /\ \/ /\ data' \in {Tarball(<<>>), Garbage}
          /\ pc' = "makedirs"
          /\ UNCHANGED <<std, status, failed>>
       \/ /\ Crash("download")
          /\ UNCHANGED data
    /\ UNCHANGED <<meta, fs>>
    /\ UNCHANGED <<cur, idx, prefix, member, written, shared>>
    /\ UNCHANGED runVars

ExtractAny ==
    /\ idx < MaxMembers
    /\ \E m \in Members : LoopOn(m)

ReturnAny ==
    /\ pc = "loop"
    /\ pc' = "returned"
    /\ UNCHANGED <<argc, std, status, requests, meta, failed, fs, snap, remote,
                   filter, cur, data, idx, prefix, member, written, shared>>

NextExtract ==
    \/ DownloadAny
    \/ MakeDirs
    \/ OpenTar
    \/ ExtractAny
    \/ ReturnAny

SpecExtract == InitExtract /\ [][NextExtract]_vars

(***************************************************************************)
(* download_and_extract on an archive whose members all have the same      *)
(* first path segment.                                                     *)
(***************************************************************************)
ExtractWrapped ==
    /\ idx < MaxWrapped
    /\ \E m \in WrappedMembers :
          /\ idx > 0 => FirstSegment(m.name) = prefix
          /\ LoopOn(m)

NextWrapped ==
    \/ DownloadAny
    \/ MakeDirs
    \/ OpenTar
    \/ ExtractWrapped
    \/ ReturnAny

SpecWrapped == InitExtract /\ [][NextWrapped]_vars

(***************************************************************************)
(* What the two tarballs alone give: main()'s two calls of                 *)
(* download_and_extract replayed on an output directory that holds neither *)
(* before nor after.                                                       *)
(***************************************************************************)
RECURSIVE Replay(_, _, _, _, _)
Replay(f, d, ms, i, pre) ==
    IF i > Len(ms) THEN f
    ELSE LET p == IF i = 1 THEN FirstSegment(ms[i].name) ELSE pre
             new == Rewrite(ms[i].name, p)
         IN  IF Skipped(new)
             THEN Replay(f, d, ms, i + 1, p)
             ELSE Replay(ExtractMember(f, d, new, ms[i].type, filter).fs,
                         d, ms, i + 1, p)

Bare == [before |-> Absent, after |-> Absent, outside |-> FALSE]

BaseAlone ==
    Replay(EnsureDir(Bare, "before").fs, "before", remote.base.members, 1, <<>>)

BothAlone ==
    Replay(EnsureDir(BaseAlone, "after").fs, "after", remote.head.members, 1, <<>>)

IsPrefix(p, q) ==
    /\ Len(p) <= Len(q)
    /\ SubSeq(q, 1, Len(p)) = p

\* the name with the wrapper prefix and the separator after it removed
Stripped(name, pre) == DropChars(name, Len(pre) + 1)

Looped == member.type # "none"

(***************************************************************************)
(* Claims about download_and_extract on any archive (SpecExtract).         *)
(***************************************************************************)
\* C1: whatever the members' names and types, download_and_extract never
\* creates or modifies an entry outside dest_dir: nothing outside the
\* output directory, and not the sibling directory either.
C1_NothingOutsideDest ==
    /\ fs.outside = FALSE
    /\ fs[Sibling(cur)] = snap[Sibling(cur)]

\* C2: a member whose name with prefix and separator removed is empty,
\* starts with "/" or has a ".." segment is not extracted, and passing over
\* it does not end the run; and only members in the wrapper directory whose
\* stripped name is none of these are handed to extraction, at that name.
C2_OnlyStrippedSafeMembers ==
    Looped =>
        /\ (HasWrapper(member.orig, prefix)
               /\ Skipped(Stripped(member.orig, prefix)))
              => (~member.extracted /\ pc # "crashed")
        /\ member.extracted =>
              /\ HasWrapper(member.orig, prefix)
              /\ ~Skipped(Stripped(member.orig, prefix))
              /\ PathOf(Stripped(member.orig, prefix)) \in written

\* C10: a member is extracted only if its original name begins with the
\* wrapper prefix followed by "/".
C10_ExtractedOnlyUnderWrapper ==
    (Looped /\ member.extracted) => HasWrapper(member.orig, prefix)

C4_UsageBeforeAnything ==
    (argc # 2 /\ pc # "main") =>
        /\ pc = "exited"
        /\ status = 1
        /\ "Usage" \in Range(std.out) \cup Range(std.err)
        /\ requests = <<>>
        /\ fs = snap

C4_Witness ==
    /\ pc = "exited"
    /\ argc = 1
    /\ fs.before = DirOf({Stale})

\* C5: when the metadata fetch fails (network, HTTP status, JSON, or a
\* missing base.sha or head.sha) the run ends after that one request: no
\* tarball request, nothing extracted, before and after as they were.
C5_MetadataFailureStops ==
    (meta \notin {"none", "ok"}) =>
        /\ pc = "crashed"
        /\ failed = "metadata"
        /\ status = 1
        /\ requests = <<"pulls">>
        /\ data = Unknown
        /\ written = {}
        /\ fs = snap

C5_Witness ==
    /\ pc = "crashed"
    /\ meta = "missing_sha"
    /\ fs.before = DirOf({Stale})
    /\ fs.after = DirOf({Stale})

\* C6: after a successful run, before and after are what the two tarballs
\* alone give, whatever was at the two paths when the run started: stale
\* entries are gone, and a run on the output of an earlier run ends in the
\* same trees.
C6_OnlyTheArchives ==
    pc = "done" =>
        /\ fs.before = BothAlone.before
        /\ fs.after = BothAlone.after

C6_Witness ==
    /\ pc = "done"
    /\ snap.after = DirOf({Stale})
    /\ fs.after.tree # {}
    /\ Stale \notin fs.after.tree

\* C7, as stated: on a usage error the usage message goes to standard
\* error, not to standard output.
C7_UsageOnStderr ==
    pc = "exited" =>
        /\ "Usage" \in Range(std.err)
        /\ "Usage" \notin Range(std.out)

\* C7, amended: on a usage error the usage message goes to standard
\* output, and nothing is written to standard error.
C7_UsageOnStdout ==
    pc = "exited" =>
        /\ std.out = <<"Usage">>
        /\ std.err = <<>>

C7_Witness ==
    /\ pc = "exited"
    /\ argc = 0
    /\ status = 1

\* C8: the head tarball is requested only after the base tarball has been
\* downloaded and extracted into before in full; and when the base
\* materialization succeeds and the head materialization fails, the run
\* stops with before as the base tarball populated it, and without the
\* final confirmation.
C8_BeforeKeptWhenHeadFails ==
    /\ "head" \in Range(requests) =>
          /\ requests = <<"pulls", "base", "head">>
          /\ cur = "after"
    /\ (cur = "after" /\ pc = "makedirs") => fs.before = BaseAlone.before
    /\ (cur = "after" /\ pc = "crashed") =>
          /\ fs.before = BaseAlone.before
          /\ "Done" \notin Range(std.out)

\* C9, as stated: the destination directory exists whenever the download
\* into it has been attempted, also when the download fails.
C9_DirectoryBeforeDownload ==
    (ShaOf(cur) \in Range(requests)) => fs[cur].kind = "dir"

\* C9, amended: the archive is requested first; the destination directory
\* is ensured to exist after the download has succeeded and before the
\* archive is opened, so it exists whenever the archive is opened or a
\* member is extracted; when the download fails it is not created.
C9_DirectoryAfterDownload ==
    /\ pc \in {"open", "loop"} => fs[cur].kind = "dir"
    /\ (pc = "crashed" /\ failed \in {"open", "extract"}) => fs[cur].kind = "dir"
    /\ (pc = "crashed" /\ failed = "download") => fs[cur].kind # "dir"

C9_Witness ==
    /\ pc = "crashed"
    /\ failed = "download"
    /\ cur = "before"
    /\ snap.before = DirOf({Stale})
    /\ fs.before = Absent

====
